---- MODULE Spec2Model ----
(***************************************************************************)
(* The concurrent frame pipeline of the two server scripts:                *)
(*   main.py      capture_video / generate_frames / get_detections         *)
(*   pi_camera.py StreamingOutput.write / capture_frames_continuously /    *)
(*                generate_camera_stream                                   *)
(* One behaviour of the model is one run of one of the two scripts         *)
(* (variable variant).  Every thread advances one statement at a time, a   *)
(* `with lock:` block is an acquire step, its body and a release step.     *)
(* Flask's server runs every request in a thread of its own: it pulls the  *)
(* chunks from the generator of a /video_feed response and writes each to  *)
(* the client while the generator is suspended at its yield; a failed      *)
(* write closes the generator.                                             *)
(***************************************************************************)
EXTENDS Integers, Sequences, FiniteSets, TLC

\* Number of frames the capture device delivers before it has no more.
MaxFrames == 2

\* The same, in the runs that are checked for progress under fair scheduling.
LiveFrames == 1

\* The connected /video_feed clients, one generator each.
Sessions == {"s1", "s2"}

\* Python's None.
None == <<"None">>

\* A lock nobody holds; a held lock names the thread holding it.
Free == "free"

(***************************************************************************)
(* Values                                                                  *)
(***************************************************************************)

\* The handler of GET /detections has built no response yet.
NoResponse == "none"

\* A raw image as cap.read() returns it: the n-th frame of the device, with
\* nothing drawn on it yet.  An image is the pair <<frame number, drawings>>.
RawImage(n) == <<n, <<>>>>

\* The device frame number of an image and what has been drawn on it.
ImgSeq(img) == img[1]
ImgBoxes(img) == img[2]

\* result.boxes of the detector: coordinates in pixels, confidence in
\* hundredths, class index.
Box1 == [x1 |-> 2, y1 |-> 4, x2 |-> 6, y2 |-> 8, conf |-> 50, cls |-> 0]

\* model(img)[0].boxes when the call returns.  The detector is a function of
\* the image: the scene shows one object in every odd frame and none in the
\* even ones.
Boxes(img) == IF ImgSeq(img) % 2 = 1 THEN <<Box1>> ELSE <<>>

\* result.names
ClassName(cls) == IF cls = 0 THEN "person" ELSE "object"

\* The dict appended to current_detections for one box.
Detection(b) ==
  [bbox |-> <<b.x1, b.y1, b.x2, b.y2>>,
   confidence |-> b.conf,
   class_id |-> b.cls,
   class_name |-> ClassName(b.cls),
   center_x |-> (b.x1 + b.x2) \div 2,
   center_y |-> (b.y1 + b.y2) \div 2]

\* cv2.rectangle and cv2.putText for one box: what is burnt into the image.
Drawn(b) == [rect |-> <<b.x1, b.y1, b.x2, b.y2>>, label |-> ClassName(b.cls)]

\* The body of `for box in result.boxes`: the detections list and the
\* annotated image after the loop.
CurrentDetections(bs) == [i \in 1..Len(bs) |-> Detection(bs[i])]
Annotate(img, bs) == <<ImgSeq(img), [i \in 1..Len(bs) |-> Drawn(bs[i])]>>

\* frame.copy(): a new array with the same content.
Copy(img) == <<ImgSeq(img), ImgBoxes(img)>>

(***************************************************************************)
(* Bytes                                                                   *)
(***************************************************************************)

\* b'--frame\r\n' b'Content-Type: image/jpeg\r\n\r\n'
ChunkHeader ==
  <<45, 45, 102, 114, 97, 109, 101, 13, 10,
    67, 111, 110, 116, 101, 110, 116, 45, 84, 121, 112, 101, 58, 32,
    105, 109, 97, 103, 101, 47, 106, 112, 101, 103, 13, 10, 13, 10>>

\* b'\r\n'
ChunkTrailer == <<13, 10>>

RECURSIVE BoxBytes(_)
BoxBytes(ds) ==
  IF ds = <<>> THEN <<>>
  ELSE Head(ds).rect \o <<Len(Head(ds).label)>> \o BoxBytes(Tail(ds))

\* The JPEG encoder: start-of-image marker, the picture, end-of-image
\* marker.  Injective in the image.
Jpeg(img) ==
  <<255, 216>> \o <<ImgSeq(img), Len(ImgBoxes(img))>> \o BoxBytes(ImgBoxes(img))
    \o <<255, 217>>

\* A chunk that lacks its terminator.
ChunkNoTrailer(payload) == ChunkHeader \o payload

\* The multipart chunk both generators build in their yield expression.
Chunk(payload) == ChunkHeader \o payload \o ChunkTrailer

\* The encoded frame inside a chunk and the device frame number it encodes.
PayloadOf(chunk) ==
  SubSeq(chunk, Len(ChunkHeader) + 1, Len(chunk) - Len(ChunkTrailer))
JpegSeq(bytes) == bytes[3]

(***************************************************************************)
(* json.dumps of the detections list                                       *)
(***************************************************************************)

\* A Python float with an integral value, as json.dumps prints it.
JsonFloat(n) == ToString(n) \o ".0"

\* A confidence given in hundredths.
JsonConf(c) ==
  ToString(c \div 100) \o "." \o ToString((c % 100) \div 10) \o
  (IF c % 10 = 0 THEN "" ELSE ToString(c % 10))

JsonDetection(d) ==
  "{\"bbox\": [" \o JsonFloat(d.bbox[1]) \o ", " \o JsonFloat(d.bbox[2]) \o ", "
     \o JsonFloat(d.bbox[3]) \o ", " \o JsonFloat(d.bbox[4]) \o "], "
  \o "\"confidence\": " \o JsonConf(d.confidence) \o ", "
  \o "\"class_id\": " \o ToString(d.class_id) \o ", "
  \o "\"class_name\": \"" \o d.class_name \o "\", "
  \o "\"center_x\": " \o JsonFloat(d.center_x) \o ", "
  \o "\"center_y\": " \o JsonFloat(d.center_y) \o "}"

RECURSIVE JsonItems(_)
JsonItems(ds) ==
  IF ds = <<>> THEN ""
  ELSE IF Len(ds) = 1 THEN JsonDetection(ds[1])
  ELSE JsonDetection(ds[1]) \o ", " \o JsonItems(Tail(ds))

JsonDumps(ds) == "[" \o JsonItems(ds) \o "]"

(***************************************************************************)
(* Array objects of main.py                                                *)
(***************************************************************************)

\* The names of main.py that are bound to image arrays: the local img of
\* capture_video, the global frame, and the local img of every session.
Holders == {"cv", "cell"} \cup Sessions

\* A name that is bound to no array.
NoObject == "null"

\* The array cap.read() allocates for the n-th frame, the array img.copy()
\* allocates in the iteration of the n-th frame, and the array frame.copy()
\* allocates for a session; a session's previous array has no reference left
\* once its img is bound to the new one.
ReadObject(n) == "read" \o ToString(n)
PublishCopy(n) == "pub" \o ToString(n)
SessionCopy(s) == "snap_" \o s

(***************************************************************************)
(* State                                                                   *)
(***************************************************************************)

VARIABLES
  variant,              \* "main" or "pi": the script that is running
  avail,                \* frames the device of this run has to deliver
  frame,                \* main.py global frame
  detections,           \* main.py global detections
  lock,                 \* main.py lock: Free or the thread holding it
  cv_pc,                \* capture_video: position
  cv_img,               \* capture_video: local img
  cv_dets,              \* capture_video: local current_detections
  nread,                \* frames the device has delivered so far
  gd_pc,                \* get_detections handler: position
  gd_resp,              \* get_detections handler: the response it built
  latest_frame_buffer,  \* pi_camera.py global latest_frame_buffer
  frame_lock,           \* pi_camera.py frame_lock: Free or the holder
  out_frame,            \* StreamingOutput.frame
  cond_lock,            \* lock of StreamingOutput.condition: Free or holder
  enc_pc,               \* the encoder thread calling StreamingOutput.write
  cfc_pc,               \* capture_frames_continuously: position
  frame_data,           \* capture_frames_continuously: local frame_data
  s_pc,                 \* per session: position of the generator
  s_img,                \* per session: local img / frame_to_send
  s_buf,                \* per session: local jpg_bytes
  s_chunk,              \* per session: the chunk last yielded
  client,               \* per session: "open", "stalled" or "closed"
  lastpub,              \* the pair written by the last completed publish
  ref                   \* main.py: the array object each name is bound to

env == <<variant, avail>>
mainVars == <<frame, detections, lock, cv_pc, cv_img, cv_dets, gd_pc, gd_resp>>
piVars == <<latest_frame_buffer, frame_lock, out_frame, cond_lock, enc_pc,
            cfc_pc, frame_data>>
sessVars == <<s_pc, s_img, s_buf, s_chunk>>
vars == <<env, mainVars, piVars, sessVars, nread, client, lastpub, ref>>

\* main.py lines 12-14 and pi_camera.py lines 20-21, before any thread runs.
Setup(frames) ==
  /\ variant \in {"main", "pi"}
  /\ avail = frames
  /\ frame = None
  /\ detections = <<>>
  /\ lock = Free
  /\ cv_pc = IF variant = "main" THEN "open" ELSE "off"
  /\ cv_img = None
  /\ cv_dets = <<>>
  /\ nread = 0
  /\ gd_pc = IF variant = "main" THEN "idle" ELSE "off"
  /\ gd_resp = NoResponse
  /\ latest_frame_buffer = None
  /\ frame_lock = Free
  /\ out_frame = None
  /\ cond_lock = Free
  /\ enc_pc = "off"
  /\ cfc_pc = IF variant = "pi" THEN "setup" ELSE "off"
  /\ frame_data = None
  /\ s_pc = [s \in Sessions |-> "idle"]
  /\ s_img = [s \in Sessions |-> None]
  /\ s_buf = [s \in Sessions |-> None]
  /\ s_chunk = [s \in Sessions |-> None]
  /\ client = [s \in Sessions |-> "open"]
  /\ lastpub = None
  /\ ref = [h \in Holders |-> NoObject]

Init == Setup(MaxFrames)

(***************************************************************************)
(* main.py: capture_video                                                  *)
(***************************************************************************)

\* cv2.VideoCapture(0) and the isOpened() test: the thread returns when the
\* device did not open, otherwise it enters the loop.
CV_Open ==
  /\ cv_pc = "open"
  /\ \E opened \in BOOLEAN : cv_pc' = IF opened THEN "read" ELSE "open_failed"
  /\ UNCHANGED <<env, ref, frame, detections, lock, cv_img, cv_dets, gd_pc,
                 gd_resp, piVars, sessVars, nread, client, lastpub>>

\* A source that is rewound when it runs out: after the last frame the first
\* one is delivered again.
CV_ReadRewind ==
  /\ cv_pc = "read"
  /\ \/ /\ nread' = IF nread < avail THEN nread + 1 ELSE 1
        /\ cv_img' = RawImage(IF nread < avail THEN nread + 1 ELSE 1)
        /\ ref' = [ref EXCEPT !["cv"] =
                     ReadObject(IF nread < avail THEN nread + 1 ELSE 1)]
        /\ cv_pc' = "infer"
     \/ /\ cv_pc' = "break"
        /\ UNCHANGED <<nread, cv_img, ref>>
  /\ UNCHANGED <<env, frame, detections, lock, cv_dets, gd_pc, gd_resp,
                 piVars, sessVars, client, lastpub>>

\* ret, img = cap.read(): the next frame of the device, or ret false and the
\* break out of the loop.  A device with frames left may fail as well.
CV_Read ==
  /\ cv_pc = "read"
  /\ \/ /\ nread < avail
        /\ nread' = nread + 1
        /\ cv_img' = RawImage(nread + 1)
        /\ ref' = [ref EXCEPT !["cv"] = ReadObject(nread + 1)]
        /\ cv_pc' = "infer"
     \/ /\ cv_pc' = "break"
        /\ UNCHANGED <<nread, cv_img, ref>>
  /\ UNCHANGED <<env, frame, detections, lock, cv_dets, gd_pc, gd_resp,
                 piVars, sessVars, client, lastpub>>

\* A loop that withdraws the published frame when the detector raises.
CV_InferInvalidate ==
  /\ cv_pc = "infer"
  /\ \/ /\ cv_dets' = CurrentDetections(Boxes(cv_img))
        /\ cv_img' = Annotate(cv_img, Boxes(cv_img))
        /\ cv_pc' = "acquire"
        /\ UNCHANGED frame
     \/ /\ cv_pc' = "crashed"
        /\ frame' = None
        /\ UNCHANGED <<cv_dets, cv_img>>
  /\ UNCHANGED <<env, ref, detections, lock, gd_pc, gd_resp, piVars,
                 sessVars, nread, client, lastpub>>

\* results = model(img) and the loop over result.boxes, which fills
\* current_detections and draws on img.  model(img) may raise: nothing in
\* capture_video catches it, so the thread ends.
CV_Infer ==
  /\ cv_pc = "infer"
  /\ \/ /\ cv_dets' = CurrentDetections(Boxes(cv_img))
        /\ cv_img' = Annotate(cv_img, Boxes(cv_img))
        /\ cv_pc' = "acquire"
     \/ /\ cv_pc' = "crashed"
        /\ UNCHANGED <<cv_dets, cv_img>>
  /\ UNCHANGED <<env, ref, frame, detections, lock, gd_pc, gd_resp, piVars,
                 sessVars, nread, client, lastpub>>

\* `with lock:` at line 150.
CV_Acquire ==
  /\ cv_pc = "acquire"
  /\ lock = Free
  /\ lock' = "cv"
  /\ cv_pc' = "write_frame"
  /\ UNCHANGED <<env, ref, frame, detections, cv_img, cv_dets, gd_pc, gd_resp,
                 piVars, sessVars, nread, client, lastpub>>

\* A publish that leaves the critical section after the first assignment.
CV_WriteFrameUnlock ==
  /\ cv_pc = "write_frame"
  /\ frame' = Copy(cv_img)
  /\ ref' = [ref EXCEPT !["cell"] = PublishCopy(ImgSeq(cv_img))]
  /\ lock' = Free
  /\ cv_pc' = "write_dets"
  /\ UNCHANGED <<env, detections, cv_img, cv_dets, gd_pc, gd_resp,
                 piVars, sessVars, nread, client, lastpub>>

\* A publish that binds frame to the array the loop works on.
CV_WriteFrameAlias ==
  /\ cv_pc = "write_frame"
  /\ frame' = cv_img
  /\ ref' = [ref EXCEPT !["cell"] = ref["cv"]]
  /\ cv_pc' = "write_dets"
  /\ UNCHANGED <<env, detections, lock, cv_img, cv_dets, gd_pc, gd_resp,
                 piVars, sessVars, nread, client, lastpub>>

\* frame = img.copy(): a new array.
CV_WriteFrame ==
  /\ cv_pc = "write_frame"
  /\ frame' = Copy(cv_img)
  /\ ref' = [ref EXCEPT !["cell"] = PublishCopy(ImgSeq(cv_img))]
  /\ cv_pc' = "write_dets"
  /\ UNCHANGED <<env, detections, lock, cv_img, cv_dets, gd_pc, gd_resp,
                 piVars, sessVars, nread, client, lastpub>>

\* An assignment that binds a local name: the global keeps its value.
CV_WriteDetectionsLocal ==
  /\ cv_pc = "write_dets"
  /\ lastpub' = <<frame, cv_dets>>
  /\ cv_pc' = "release"
  /\ UNCHANGED <<env, ref, frame, detections, lock, cv_img, cv_dets, gd_pc,
                 gd_resp, piVars, sessVars, nread, client>>

\* detections = current_detections: the second and last assignment of the
\* publish.
CV_WriteDetections ==
  /\ cv_pc = "write_dets"
  /\ detections' = cv_dets
  /\ lastpub' = <<frame, cv_dets>>
  /\ cv_pc' = "release"
  /\ UNCHANGED <<env, ref, frame, lock, cv_img, cv_dets, gd_pc, gd_resp,
                 piVars, sessVars, nread, client>>

\* Leaving the `with lock:` block, back to the top of the loop.
CV_Release ==
  /\ cv_pc = "release"
  /\ lock' = Free
  /\ cv_pc' = "read"
  /\ UNCHANGED <<env, ref, frame, detections, cv_img, cv_dets, gd_pc, gd_resp,
                 piVars, sessVars, nread, client, lastpub>>

\* A loop that opens the device again after a failed read.
CV_CapReleaseRetry ==
  /\ cv_pc = "break"
  /\ cv_pc' = "read"
  /\ UNCHANGED <<env, ref, frame, detections, lock, cv_img, cv_dets, gd_pc,
                 gd_resp, piVars, sessVars, nread, client, lastpub>>

\* cap.release() after the loop: the device is given back and the thread
\* ends.
CV_CapRelease ==
  /\ cv_pc = "break"
  /\ cv_pc' = "stopped"
  /\ UNCHANGED <<env, ref, frame, detections, lock, cv_img, cv_dets, gd_pc,
                 gd_resp, piVars, sessVars, nread, client, lastpub>>

(***************************************************************************)
(* main.py: get_detections                                                 *)
(***************************************************************************)

\* A GET /detections request arrives.
GD_Request ==
  /\ gd_pc = "idle"
  /\ gd_pc' = "acquire"
  /\ UNCHANGED <<env, ref, frame, detections, lock, cv_pc, cv_img, cv_dets,
                 gd_resp, piVars, sessVars, nread, client, lastpub>>

\* `with lock:` at line 184.
GD_Acquire ==
  /\ gd_pc = "acquire"
  /\ lock = Free
  /\ lock' = "gd"
  /\ gd_pc' = "dumps"
  /\ UNCHANGED <<env, ref, frame, detections, cv_pc, cv_img, cv_dets, gd_resp,
                 piVars, sessVars, nread, client, lastpub>>

\* A handler that hands the list out and empties the global.
GD_DumpsClear ==
  /\ gd_pc = "dumps"
  /\ gd_resp' = JsonDumps(detections)
  /\ detections' = <<>>
  /\ gd_pc' = "release"
  /\ UNCHANGED <<env, ref, frame, lock, cv_pc, cv_img, cv_dets,
                 piVars, sessVars, nread, client, lastpub>>

\* json.dumps(detections), evaluated inside the block.
GD_Dumps ==
  /\ gd_pc = "dumps"
  /\ gd_resp' = JsonDumps(detections)
  /\ gd_pc' = "release"
  /\ UNCHANGED <<env, ref, frame, detections, lock, cv_pc, cv_img, cv_dets,
                 piVars, sessVars, nread, client, lastpub>>

\* The return leaves the block and sends the response.
GD_Return ==
  /\ gd_pc = "release"
  /\ lock' = Free
  /\ gd_pc' = "idle"
  /\ gd_resp' = NoResponse
  /\ UNCHANGED <<env, ref, frame, detections, cv_pc, cv_img, cv_dets,
                 piVars, sessVars, nread, client, lastpub>>

(***************************************************************************)
(* The clients of /video_feed and the server's write of a yielded chunk    *)
(***************************************************************************)

Live(s) == s_pc[s] \notin {"idle", "closed", "crashed"}

\* GET /video_feed: video_feed() wraps a new generator in a Response and the
\* server starts pulling chunks from it.
Connect(s) ==
  /\ s_pc[s] = "idle"
  /\ s_pc' = [s_pc EXCEPT ![s] = IF variant = "main" THEN "check" ELSE "lock"]
  /\ UNCHANGED <<env, ref, mainVars, piVars, s_img, s_buf, s_chunk, nread,
                 client, lastpub>>

\* The client stops reading without closing: the write of the chunk blocks.
ClientStall(s) ==
  /\ s_pc[s] = "writing"
  /\ client[s] = "open"
  /\ client' = [client EXCEPT ![s] = "stalled"]
  /\ UNCHANGED <<env, ref, mainVars, piVars, sessVars, nread, lastpub>>

\* The client closes the connection.
ClientClose(s) ==
  /\ Live(s)
  /\ client[s] \in {"open", "stalled"}
  /\ client' = [client EXCEPT ![s] = "closed"]
  /\ UNCHANGED <<env, ref, mainVars, piVars, sessVars, nread, lastpub>>

\* The chunk has been written to an open client: the server asks the
\* generator for the next one, which resumes it after its yield.
WriteDone(s) ==
  /\ s_pc[s] = "writing"
  /\ client[s] = "open"
  /\ s_pc' = [s_pc EXCEPT ![s] = IF variant = "main" THEN "check" ELSE "pace"]
  /\ UNCHANGED <<env, ref, mainVars, piVars, s_img, s_buf, s_chunk, nread,
                 client, lastpub>>

\* The write to a closed client fails: the server closes the generator,
\* which raises GeneratorExit at the yield and ends it.
WriteFailed(s) ==
  /\ s_pc[s] = "writing"
  /\ client[s] = "closed"
  /\ s_pc' = [s_pc EXCEPT ![s] = "closed"]
  /\ UNCHANGED <<env, ref, mainVars, piVars, s_img, s_buf, s_chunk, nread,
                 client, lastpub>>

(***************************************************************************)
(* main.py: generate_frames                                                *)
(***************************************************************************)

\* A test that lets an absent frame through.
GF_CheckNoGuard(s) ==
  /\ variant = "main"
  /\ s_pc[s] = "check"
  /\ s_pc' = [s_pc EXCEPT ![s] = "acquire"]
  /\ UNCHANGED <<env, ref, mainVars, piVars, s_img, s_buf, s_chunk, nread,
                 client, lastpub>>

\* `if frame is None`, read without the lock.
GF_Check(s) ==
  /\ variant = "main"
  /\ s_pc[s] = "check"
  /\ s_pc' = [s_pc EXCEPT ![s] = IF frame = None THEN "sleep" ELSE "acquire"]
  /\ UNCHANGED <<env, ref, mainVars, piVars, s_img, s_buf, s_chunk, nread,
                 client, lastpub>>

\* time.sleep(0.1); continue
GF_Sleep(s) ==
  /\ variant = "main"
  /\ s_pc[s] = "sleep"
  /\ s_pc' = [s_pc EXCEPT ![s] = "check"]
  /\ UNCHANGED <<env, ref, mainVars, piVars, s_img, s_buf, s_chunk, nread,
                 client, lastpub>>

\* `with lock:` at line 164.
GF_Acquire(s) ==
  /\ variant = "main"
  /\ s_pc[s] = "acquire"
  /\ lock = Free
  /\ lock' = s
  /\ s_pc' = [s_pc EXCEPT ![s] = "copy"]
  /\ UNCHANGED <<env, ref, frame, detections, cv_pc, cv_img, cv_dets, gd_pc,
                 gd_resp, piVars, s_img, s_buf, s_chunk, nread, client,
                 lastpub>>

\* img = frame.copy().  On an absent frame the attribute lookup raises, the
\* block releases the lock and the generator ends.
GF_Copy(s) ==
  /\ variant = "main"
  /\ s_pc[s] = "copy"
  /\ IF frame = None
       THEN /\ s_pc' = [s_pc EXCEPT ![s] = "crashed"]
            /\ lock' = Free
            /\ UNCHANGED <<s_img, ref>>
       ELSE /\ s_img' = [s_img EXCEPT ![s] = Copy(frame)]
            /\ ref' = [ref EXCEPT ![s] = SessionCopy(s)]
            /\ s_pc' = [s_pc EXCEPT ![s] = "release"]
            /\ UNCHANGED lock
  /\ UNCHANGED <<env, frame, detections, cv_pc, cv_img, cv_dets, gd_pc,
                 gd_resp, piVars, s_buf, s_chunk, nread, client, lastpub>>

\* A block that is left without giving the lock back.
GF_ReleaseKeep(s) ==
  /\ variant = "main"
  /\ s_pc[s] = "release"
  /\ s_pc' = [s_pc EXCEPT ![s] = "encode"]
  /\ UNCHANGED <<env, ref, mainVars, piVars, s_img, s_buf, s_chunk, nread,
                 client, lastpub>>

\* Leaving the `with lock:` block.
GF_Release(s) ==
  /\ variant = "main"
  /\ s_pc[s] = "release"
  /\ lock' = Free
  /\ s_pc' = [s_pc EXCEPT ![s] = "encode"]
  /\ UNCHANGED <<env, ref, frame, detections, cv_pc, cv_img, cv_dets, gd_pc,
                 gd_resp, piVars, s_img, s_buf, s_chunk, nread, client,
                 lastpub>>

\* An encoder that reports a failure in its status, which the caller drops,
\* and leaves the start of the encoding in the buffer.
GF_EncodeTruncated(s) ==
  /\ variant = "main"
  /\ s_pc[s] = "encode"
  /\ \/ s_buf' = [s_buf EXCEPT ![s] = Jpeg(s_img[s])]
     \/ s_buf' = [s_buf EXCEPT ![s] = SubSeq(Jpeg(s_img[s]), 1, 2)]
  /\ s_pc' = [s_pc EXCEPT ![s] = "yield"]
  /\ UNCHANGED <<env, ref, mainVars, piVars, s_img, s_chunk, nread, client,
                 lastpub>>

\* _, buffer = cv2.imencode('.jpg', img); jpg_bytes = buffer.tobytes().
\* The encoder returns the encoding or raises cv2.error (OpenCV 4, which
\* ultralytics requires, asserts the encoder's success inside imencode);
\* nothing in generate_frames catches the exception.
GF_Encode(s) ==
  /\ variant = "main"
  /\ s_pc[s] = "encode"
  /\ \/ /\ s_buf' = [s_buf EXCEPT ![s] = Jpeg(s_img[s])]
        /\ s_pc' = [s_pc EXCEPT ![s] = "yield"]
     \/ /\ s_pc' = [s_pc EXCEPT ![s] = "crashed"]
        /\ UNCHANGED s_buf
  /\ UNCHANGED <<env, ref, mainVars, piVars, s_img, s_chunk, nread, client,
                 lastpub>>

\* yield (b'--frame\r\n' b'Content-Type: image/jpeg\r\n\r\n' + jpg_bytes
\* + b'\r\n'): the chunk is handed to the server, the generator is suspended.
GF_Yield(s) ==
  /\ variant = "main"
  /\ s_pc[s] = "yield"
  /\ s_chunk' = [s_chunk EXCEPT ![s] = Chunk(s_buf[s])]
  /\ s_pc' = [s_pc EXCEPT ![s] = "writing"]
  /\ UNCHANGED <<env, ref, mainVars, piVars, s_img, s_buf, nread, client,
                 lastpub>>

(***************************************************************************)
(* pi_camera.py: the encoder thread and StreamingOutput.write              *)
(***************************************************************************)

\* The encoder has the next JPEG and calls output.write(buf):
\* `with self.condition:`.
SO_Enter ==
  /\ enc_pc = "produce"
  /\ nread < avail
  /\ cond_lock = Free
  /\ cond_lock' = "enc"
  /\ nread' = nread + 1
  /\ enc_pc' = "w_body"
  /\ UNCHANGED <<env, ref, mainVars, latest_frame_buffer, frame_lock,
                 out_frame, cfc_pc, frame_data, sessVars, client, lastpub>>

\* self.frame = buf; self.condition.notify_all(): a thread waiting on the
\* condition is woken, a thread that is not waiting is not told anything.
SO_Write ==
  /\ enc_pc = "w_body"
  /\ out_frame' = Jpeg(RawImage(nread))
  /\ cfc_pc' = IF cfc_pc = "waiting" THEN "notified" ELSE cfc_pc
  /\ enc_pc' = "w_release"
  /\ UNCHANGED <<env, ref, mainVars, latest_frame_buffer, frame_lock,
                 cond_lock, frame_data, sessVars, nread, client, lastpub>>

\* Leaving the `with self.condition:` block of write.
SO_Exit ==
  /\ enc_pc = "w_release"
  /\ cond_lock' = Free
  /\ enc_pc' = "produce"
  /\ UNCHANGED <<env, ref, mainVars, latest_frame_buffer, frame_lock,
                 out_frame, cfc_pc, frame_data, sessVars, nread, client,
                 lastpub>>

(***************************************************************************)
(* pi_camera.py: capture_frames_continuously                               *)
(***************************************************************************)

\* Lines 41-53: configure the camera and start recording, which starts the
\* encoder; an exception ends the thread in the outer handler.
CFC_Setup ==
  /\ cfc_pc = "setup"
  /\ \/ /\ cfc_pc' = "cond_acquire"
        /\ enc_pc' = "produce"
     \/ /\ cfc_pc' = "setup_failed"
        /\ UNCHANGED enc_pc
  /\ UNCHANGED <<env, ref, mainVars, latest_frame_buffer, frame_lock,
                 out_frame, cond_lock, frame_data, sessVars, nread, client,
                 lastpub>>

\* `with output.condition:` at line 57.
CFC_CondAcquire ==
  /\ cfc_pc = "cond_acquire"
  /\ cond_lock = Free
  /\ cond_lock' = "cfc"
  /\ cfc_pc' = "wait"
  /\ UNCHANGED <<env, ref, mainVars, latest_frame_buffer, frame_lock,
                 out_frame, enc_pc, frame_data, sessVars, nread, client,
                 lastpub>>

\* output.condition.wait(): give the condition's lock back and block until
\* notified.
CFC_Wait ==
  /\ cfc_pc = "wait"
  /\ cond_lock' = Free
  /\ cfc_pc' = "waiting"
  /\ UNCHANGED <<env, ref, mainVars, latest_frame_buffer, frame_lock,
                 out_frame, enc_pc, frame_data, sessVars, nread, client,
                 lastpub>>

\* wait() returns once it has the condition's lock again.
CFC_Wake ==
  /\ cfc_pc = "notified"
  /\ cond_lock = Free
  /\ cond_lock' = "cfc"
  /\ cfc_pc' = "take"
  /\ UNCHANGED <<env, ref, mainVars, latest_frame_buffer, frame_lock,
                 out_frame, enc_pc, frame_data, sessVars, nread, client,
                 lastpub>>

\* A loop that stores the frame inside the `with output.condition:` block.
CFC_TakeNested ==
  /\ cfc_pc = "take"
  /\ frame_data' = out_frame
  /\ cfc_pc' = "lock_frame"
  /\ UNCHANGED <<env, ref, mainVars, latest_frame_buffer, frame_lock,
                 out_frame, cond_lock, enc_pc, sessVars, nread, client,
                 lastpub>>

\* frame_data = output.frame, then the block is left.
CFC_Take ==
  /\ cfc_pc = "take"
  /\ frame_data' = out_frame
  /\ cond_lock' = Free
  /\ cfc_pc' = "lock_frame"
  /\ UNCHANGED <<env, ref, mainVars, latest_frame_buffer, frame_lock,
                 out_frame, enc_pc, sessVars, nread, client, lastpub>>

\* `with frame_lock:` at line 60.
CFC_LockFrame ==
  /\ cfc_pc = "lock_frame"
  /\ frame_lock = Free
  /\ frame_lock' = "cfc"
  /\ cfc_pc' = "store"
  /\ UNCHANGED <<env, ref, mainVars, latest_frame_buffer, out_frame, cond_lock,
                 enc_pc, frame_data, sessVars, nread, client, lastpub>>

\* latest_frame_buffer = frame_data
CFC_Store ==
  /\ cfc_pc = "store"
  /\ latest_frame_buffer' = frame_data
  /\ lastpub' = <<frame_data, <<>>>>
  /\ cfc_pc' = "unlock_frame"
  /\ UNCHANGED <<env, ref, mainVars, frame_lock, out_frame, cond_lock, enc_pc,
                 frame_data, sessVars, nread, client>>

\* Leaving the `with frame_lock:` block, back to the top of the loop.
CFC_UnlockFrame ==
  /\ cfc_pc = "unlock_frame"
  /\ frame_lock' = Free
  /\ cfc_pc' = "cond_acquire"
  /\ UNCHANGED <<env, ref, mainVars, latest_frame_buffer, out_frame, cond_lock,
                 enc_pc, frame_data, sessVars, nread, client, lastpub>>

(***************************************************************************)
(* pi_camera.py: generate_camera_stream                                    *)
(***************************************************************************)

\* `with frame_lock:` at line 78.
GCS_Acquire(s) ==
  /\ variant = "pi"
  /\ s_pc[s] = "lock"
  /\ frame_lock = Free
  /\ frame_lock' = s
  /\ s_pc' = [s_pc EXCEPT ![s] = "read"]
  /\ UNCHANGED <<env, ref, mainVars, latest_frame_buffer, out_frame, cond_lock,
                 enc_pc, cfc_pc, frame_data, s_img, s_buf, s_chunk, nread,
                 client, lastpub>>

\* A reader that takes the encoder's output instead of the cell.
GCS_ReadOutput(s) ==
  /\ variant = "pi"
  /\ s_pc[s] = "read"
  /\ s_img' = [s_img EXCEPT ![s] = out_frame]
  /\ s_pc' = [s_pc EXCEPT ![s] = "unlock"]
  /\ UNCHANGED <<env, ref, mainVars, piVars, s_buf, s_chunk, nread, client,
                 lastpub>>

\* frame_to_send = latest_frame_buffer
GCS_Read(s) ==
  /\ variant = "pi"
  /\ s_pc[s] = "read"
  /\ s_img' = [s_img EXCEPT ![s] = latest_frame_buffer]
  /\ s_pc' = [s_pc EXCEPT ![s] = "unlock"]
  /\ UNCHANGED <<env, ref, mainVars, piVars, s_buf, s_chunk, nread, client,
                 lastpub>>

\* Leaving the `with frame_lock:` block.
GCS_Release(s) ==
  /\ variant = "pi"
  /\ s_pc[s] = "unlock"
  /\ frame_lock' = Free
  /\ s_pc' = [s_pc EXCEPT ![s] = "test"]
  /\ UNCHANGED <<env, ref, mainVars, latest_frame_buffer, out_frame, cond_lock,
                 enc_pc, cfc_pc, frame_data, s_img, s_buf, s_chunk, nread,
                 client, lastpub>>

\* `if frame_to_send is None`
GCS_Test(s) ==
  /\ variant = "pi"
  /\ s_pc[s] = "test"
  /\ s_pc' = [s_pc EXCEPT ![s] = IF s_img[s] = None THEN "sleep" ELSE "yield"]
  /\ UNCHANGED <<env, ref, mainVars, piVars, s_img, s_buf, s_chunk, nread,
                 client, lastpub>>

\* time.sleep(0.01); continue
GCS_Sleep(s) ==
  /\ variant = "pi"
  /\ s_pc[s] = "sleep"
  /\ s_pc' = [s_pc EXCEPT ![s] = "lock"]
  /\ UNCHANGED <<env, ref, mainVars, piVars, s_img, s_buf, s_chunk, nread,
                 client, lastpub>>

\* yield (b'--frame\r\n' b'Content-Type: image/jpeg\r\n\r\n' + frame_to_send
\* + b'\r\n')
GCS_Yield(s) ==
  /\ variant = "pi"
  /\ s_pc[s] = "yield"
  /\ s_chunk' = [s_chunk EXCEPT ![s] = Chunk(s_img[s])]
  /\ s_pc' = [s_pc EXCEPT ![s] = "writing"]
  /\ UNCHANGED <<env, ref, mainVars, piVars, s_img, s_buf, nread, client,
                 lastpub>>

\* time.sleep(1/FRAMERATE * 0.8), then the top of the loop.
GCS_Pace(s) ==
  /\ variant = "pi"
  /\ s_pc[s] = "pace"
  /\ s_pc' = [s_pc EXCEPT ![s] = "lock"]
  /\ UNCHANGED <<env, ref, mainVars, piVars, s_img, s_buf, s_chunk, nread,
                 client, lastpub>>

(***************************************************************************)
(* The scripts                                                             *)
(***************************************************************************)

CaptureVideo ==
  \/ CV_Open \/ CV_Read \/ CV_Infer \/ CV_Acquire \/ CV_WriteFrame
  \/ CV_WriteDetections \/ CV_Release \/ CV_CapRelease

GetDetections == GD_Request \/ GD_Acquire \/ GD_Dumps \/ GD_Return

GenerateFrames(s) ==
  \/ GF_Check(s) \/ GF_Sleep(s) \/ GF_Acquire(s) \/ GF_Copy(s)
  \/ GF_Release(s) \/ GF_Encode(s) \/ GF_Yield(s)

Encoder == SO_Enter \/ SO_Write \/ SO_Exit

CaptureFramesContinuously ==
  \/ CFC_Setup \/ CFC_CondAcquire \/ CFC_Wait \/ CFC_Wake \/ CFC_Take
  \/ CFC_LockFrame \/ CFC_Store \/ CFC_UnlockFrame

GenerateCameraStream(s) ==
  \/ GCS_Acquire(s) \/ GCS_Read(s) \/ GCS_Release(s) \/ GCS_Test(s)
  \/ GCS_Sleep(s) \/ GCS_Yield(s) \/ GCS_Pace(s)

Server(s) == Connect(s) \/ WriteDone(s) \/ WriteFailed(s)

Client(s) == ClientStall(s) \/ ClientClose(s)

Next ==
  \/ CaptureVideo
  \/ GetDetections
  \/ Encoder
  \/ CaptureFramesContinuously
  \/ \E s \in Sessions :
       GenerateFrames(s) \/ GenerateCameraStream(s) \/ Server(s) \/ Client(s)

Spec == Init /\ [][Next]_vars

(***************************************************************************)
(* Scheduling                                                              *)
(***************************************************************************)

\* Every thread that can take a step eventually takes one, and a thread
\* waiting for a lock that keeps becoming free eventually gets it.  Clients
\* owe nothing: they may never connect, stall or close, and GET /detections
\* may never be requested.
SessionFairness(s) ==
  /\ WF_vars(GF_Check(s) \/ GF_Sleep(s) \/ GF_Copy(s) \/ GF_Release(s)
             \/ GF_Encode(s) \/ GF_Yield(s))
  /\ SF_vars(GF_Acquire(s))
  /\ WF_vars(GCS_Read(s) \/ GCS_Release(s) \/ GCS_Test(s) \/ GCS_Sleep(s)
             \/ GCS_Yield(s) \/ GCS_Pace(s))
  /\ SF_vars(GCS_Acquire(s))
  /\ WF_vars(WriteDone(s) \/ WriteFailed(s))

Fairness ==
  /\ WF_vars(CV_Open \/ CV_Read \/ CV_Infer \/ CV_WriteFrame
             \/ CV_WriteDetections \/ CV_Release \/ CV_CapRelease)
  /\ SF_vars(CV_Acquire)
  /\ WF_vars(GD_Dumps \/ GD_Return)
  /\ SF_vars(GD_Acquire)
  /\ WF_vars(SO_Write \/ SO_Exit)
  /\ SF_vars(SO_Enter)
  /\ WF_vars(CFC_Setup \/ CFC_Wait \/ CFC_Take \/ CFC_Store \/ CFC_UnlockFrame)
  /\ SF_vars(CFC_CondAcquire \/ CFC_Wake \/ CFC_LockFrame)
  /\ \A s \in Sessions : SessionFairness(s)

FairSpec == Setup(LiveFrames) /\ [][Next]_vars /\ Fairness

(***************************************************************************)
(* Properties of the shared cell                                           *)
(***************************************************************************)

(***************************************************************************)
(* The claims                                                              *)
(***************************************************************************)

\* What a snapshot has to show: the initial pair, or the pair of the last
\* completed publish.
Published == IF lastpub = None THEN <<None, <<>>>> ELSE lastpub

\* The device frame number of the last completed publish, 0 if none.
PublishedSeq ==
  IF lastpub = None THEN 0
  ELSE IF variant = "main" THEN ImgSeq(lastpub[1]) ELSE JpegSeq(lastpub[1])

\* The device frame number of the chunk a session last emitted, 0 if none.
EmittedSeq(s) ==
  IF s_chunk[s] = None THEN 0 ELSE JpegSeq(PayloadOf(s_chunk[s]))

\* The cell of the running script holds a frame.
CellPresent ==
  IF variant = "main" THEN frame # None ELSE latest_frame_buffer # None

\* A reader of main.py is inside its `with lock:` block, about to read.
ReaderInBlock ==
  \/ gd_pc = "dumps"
  \/ \E s \in Sessions : variant = "main" /\ s_pc[s] = "copy"

\* C1: whenever a generate_frames session or a get_detections call is inside
\* its locked block, the cell holds the initial pair (frame absent, no
\* detections) or exactly the frame and detections of one completed publish,
\* never the frame of one iteration with the detections of another.
T1_SnapshotIsOnePublish == ReaderInBlock => <<frame, detections>> = Published

\* A session is inside its block after a publish with a detection, while
\* capture_video waits for the lock with the next frame.
W1_ReaderInsideWhilePublisherWaits ==
  /\ \E s \in Sessions : s_pc[s] = "copy"
  /\ cv_pc = "acquire"
  /\ lastpub # None
  /\ detections # <<>>

\* A session has read something other than None from the cell: the unlocked
\* test of generate_frames let it through, or its locked read returned a
\* frame.
SawFrame(s) ==
  \/ variant = "main" /\ s_pc[s] \in {"acquire", "copy", "release", "encode",
                                       "yield", "writing"}
  \/ s_img[s] # None

\* C2: as long as no publish has completed, every read of the cell by a
\* session yields None and no session has emitted a chunk.
C2_NoReadBeforePublish ==
  lastpub = None => \A s \in Sessions : ~SawFrame(s) /\ s_chunk[s] = None

\* The part of C2 that the code keeps: before the first completed publish no
\* locked read has returned a frame and no chunk has been emitted.
L2_NoSnapshotBeforePublish ==
  lastpub = None => \A s \in Sessions : s_img[s] = None /\ s_chunk[s] = None

\* C3: a session that is suspended at its yield (its chunk being written,
\* for however long) holds neither lock, and whatever the other sessions and
\* their clients do, every session that has a frame to send reaches its next
\* yield, unless the encoder raises and ends it.
T3_OthersProgressWhileOneBlocked ==
  /\ [](\A k \in Sessions : s_pc[k] = "writing" => lock # k /\ frame_lock # k)
  /\ \A s \in Sessions :
       (Live(s) /\ s_pc[s] # "writing" /\ CellPresent)
          ~> (s_pc[s] \in {"writing", "crashed"})

\* One session is blocked writing to a stalled client while another one,
\* which has emitted a chunk before, is inside its locked block again.
W3_OtherReadsWhileOneBlocked ==
  \E k, s \in Sessions :
    /\ k # s
    /\ s_pc[k] = "writing" /\ client[k] = "stalled"
    /\ s_chunk[s] # None /\ client[s] = "open"
    /\ lock = s \/ frame_lock = s

\* C4: every chunk a session yields carries a frame that has been published,
\* and never an older frame than the one the session yielded before.
T4_EmitsInPublishOrder ==
  [][\A s \in Sessions :
       (s_pc[s] = "yield" /\ s_pc'[s] = "writing") =>
          /\ EmittedSeq(s)' >= EmittedSeq(s)
          /\ EmittedSeq(s)' >= 1
          /\ EmittedSeq(s)' <= PublishedSeq]_vars

\* A session that emitted the first frame is about to emit the second: it
\* polled the cell again after a newer publish.
W4_EmitsNewerFrame ==
  \E s \in Sessions :
    /\ s_pc[s] = "yield"
    /\ EmittedSeq(s) = 1
    /\ PublishedSeq = 2
    /\ 2 = IF variant = "main" THEN ImgSeq(s_img[s]) ELSE JpegSeq(s_img[s])

\* C5: once the device has failed to open, capture_video has returned, the
\* cell stays in its initial state, no session has emitted a chunk, every
\* connected session is in the test-sleep-retry branch, and the handler of
\* /detections answers with the empty array.
T5_OpenFailureServesNothing ==
  cv_pc = "open_failed" =>
    /\ frame = None /\ detections = <<>> /\ lastpub = None
    /\ \A s \in Sessions :
         s_chunk[s] = None /\ s_pc[s] \in {"idle", "check", "sleep"}
    /\ gd_pc = "release" => gd_resp = "[]"

\* The device did not open, both sessions are connected and sleeping, and
\* the handler of /detections has built its answer.
W5_OpenFailedAndServing ==
  /\ cv_pc = "open_failed"
  /\ \A s \in Sessions : s_pc[s] = "sleep"
  /\ gd_pc = "release"

\* C6: once the client of a session has closed, the session ends, whatever
\* the session was doing when the client closed.
C6_DisconnectEndsSession ==
  \A s \in Sessions : (Live(s) /\ client[s] = "closed") ~> ~Live(s)

\* C7: an inference failure does not end the capture loop: the step that runs
\* the detector leads to the publish or back to the next acquisition.
C7_InferenceFailureContinues ==
  [][cv_pc = "infer" => cv_pc' \in {"infer", "acquire", "read"}]_vars

\* C8: a capture iteration that has acquired a frame completes its publish:
\* in main.py the frame read from the device becomes the published one, in
\* pi_camera.py the frame taken from the encoder is stored in the cell.
C8_AcquiredFrameIsPublished ==
  /\ \A n \in 1..MaxFrames :
       (cv_pc = "infer" /\ nread = n) ~> (PublishedSeq >= n)
  /\ (cfc_pc = "lock_frame") ~> (cfc_pc = "unlock_frame")

\* The part of C8 that is about clients: once capture_video asks for the
\* lock, or capture_frames_continuously for frame_lock, it gets it and
\* leaves its block, and only a thread inside a locked block holds a lock.
L8_PublisherGetsTheLock ==
  /\ (cv_pc = "acquire") ~> (cv_pc = "release")
  /\ (cfc_pc = "lock_frame") ~> (cfc_pc = "unlock_frame")
  /\ [](\A s \in Sessions :
         /\ lock = s => s_pc[s] \in {"copy", "release"}
         /\ frame_lock = s => s_pc[s] \in {"read", "unlock"})

\* C9: the response get_detections builds is the JSON text of the detection
\* list of the last completed publish, "[]" when there is none.
T9_ReturnsLatestDetections ==
  gd_pc = "release" => gd_resp = JsonDumps(Published[2])

\* The handler answers after the second publish, which superseded the first
\* one's detection.
W9_AnswerAfterSupersede ==
  gd_pc = "release" /\ PublishedSeq = 2 /\ gd_resp = "[]"

\* The encoded bytes of the frame a session snapshotted for its emission.
SnapshotBytes(s) == IF variant = "main" THEN Jpeg(s_img[s]) ELSE s_img[s]

LoopLeft == cv_pc \in {"break", "stopped"}

\* C11: once cap.read() has failed, capture_video releases the device and
\* stays stopped: it reads no further frame, takes the lock no more, and the
\* cell keeps the pair of the last completed publish in every later state.
T11_AcquireFailureIsTerminal ==
  /\ [][LoopLeft =>
          /\ cv_pc' \in {cv_pc, "stopped"}
          /\ nread' = nread
          /\ UNCHANGED <<frame, detections, lastpub>>]_vars
  /\ [](LoopLeft => <<frame, detections>> = Published /\ lock # "cv")
  /\ (cv_pc = "break") ~> [](cv_pc = "stopped")

\* The loop has stopped after one publish, and the readers go on: a session
\* is sending a chunk and the handler of /detections has its answer.
W11_StoppedWhileServing ==
  /\ cv_pc = "stopped"
  /\ PublishedSeq = 1
  /\ \E s \in Sessions : s_pc[s] = "writing"
  /\ gd_pc = "release"

Cell == IF variant = "main" THEN frame ELSE latest_frame_buffer

\* The device frame number of a session's snapshot, 0 if it has none.
SnapshotSeq(s) ==
  IF s_img[s] = None THEN 0
  ELSE IF variant = "main" THEN ImgSeq(s_img[s]) ELSE JpegSeq(s_img[s])

\* C13: a session's snapshot is the content the cell has at the moment the
\* session reads it, under the cell's lock, and the chunk the session then
\* emits carries that snapshot; nothing makes a session emit each published
\* frame exactly once (see the witness: one session emits a frame twice in a
\* row, another never emits a frame that was published and superseded).
T13_EmitsCellContentAtSnapshot ==
  [][\A s \in Sessions :
       /\ s_img'[s] # s_img[s] =>
             /\ s_img'[s] = Cell
             /\ lock = s \/ frame_lock = s
       /\ s_chunk'[s] # s_chunk[s] =>
             /\ PayloadOf(s_chunk'[s]) = SnapshotBytes(s)
             /\ EmittedSeq(s)' = SnapshotSeq(s)]_vars

\* One session, which emitted frame 1, has snapshotted frame 1 again and is
\* about to emit it a second time; the other session emitted nothing while
\* frame 1 was in the cell and is about to emit frame 2 as its first chunk.
W13_ReemitAndSkip ==
  \E s, k \in Sessions :
    /\ s # k
    /\ s_pc[s] = "yield" /\ EmittedSeq(s) = 1 /\ SnapshotSeq(s) = 1
    /\ s_pc[k] = "yield" /\ s_chunk[k] = None /\ SnapshotSeq(k) = 2
    /\ PublishedSeq = 2

\* A step of a stream session, of its server thread or of its client, or a
\* step of the handler of /detections: each step of the pipeline is the step
\* of one thread, and these are the variables only those threads change.
ReaderStep ==
  \/ sessVars' # sessVars
  \/ client' # client
  \/ gd_pc' # gd_pc
  \/ gd_resp' # gd_resp

\* C14: no step of a stream session (test, snapshot, encode, yield, sleep,
\* disconnect) and no step of get_detections changes frame, detections or
\* latest_frame_buffer.
T14_ReadersLeaveCellUnchanged ==
  [][ReaderStep =>
       /\ frame' = frame
       /\ detections' = detections
       /\ latest_frame_buffer' = latest_frame_buffer]_vars

\* After the second publish of main.py one session has ended on its client's
\* disconnect, the other is encoding its snapshot and the handler of
\* /detections has built its answer.
W14_ReadersActedAfterPublish ==
  /\ variant = "main" /\ PublishedSeq = 2
  /\ gd_pc = "release"
  /\ \E s, k \in Sessions :
       /\ s_pc[s] = "closed" /\ EmittedSeq(s) >= 1
       /\ s_pc[k] = "encode" /\ SnapshotSeq(k) = 2

\* The names other than h that are bound to the array h is bound to.
Aliases(h) == {g \in Holders \ {h} : ref[g] = ref[h]}

\* C15: in main.py the array capture_video draws on is bound to no other
\* name, and is never the one in the cell; the publish binds frame to a new
\* array, which no step changes afterwards; a session's snapshot is a new
\* array made under the lock, and the array a session encodes is neither the
\* one in the cell nor the one capture_video works on.
T15_PublishedFrameIsNeverDrawnOn ==
  /\ [][/\ cv_pc = "infer" => Aliases("cv") = {}
        /\ ref'["cell"] # ref["cell"] =>
              /\ ref'["cell"] \notin {ref[h] : h \in Holders}
              /\ lock = "cv"
        /\ frame' # frame => ref'["cell"] # ref["cell"]
        /\ \A s \in Sessions :
              (s_pc[s] = "copy" /\ s_pc'[s] = "release") =>
                 /\ ref'[s] \notin {ref[h] : h \in Holders \ {s}}
                 /\ lock = s]_vars
  /\ [](ref["cv"] # NoObject => Aliases("cv") = {})
  /\ [](\A s \in Sessions : s_pc[s] = "encode" => Aliases(s) = {})

\* The loop has drawn a box on the first frame and published it, a session
\* is encoding its snapshot of that frame, and the loop has gone through the
\* drawing code again with the second frame: three arrays, none shared.
W15_EncodingWhileNextFrameProcessed ==
  /\ cv_pc = "acquire" /\ ImgSeq(cv_img) = 2
  /\ ImgSeq(frame) = 1 /\ ImgBoxes(frame) # <<>>
  /\ \E s \in Sessions : s_pc[s] = "encode" /\ SnapshotSeq(s) = 1
  /\ Cardinality({ref[h] : h \in Holders} \ {NoObject}) >= 3

\* The device frame number of the frame in latest_frame_buffer, 0 if none.
BufferSeq ==
  IF latest_frame_buffer = None THEN 0 ELSE JpegSeq(latest_frame_buffer)

\* C16: every frame the encoder writes to StreamingOutput reaches
\* latest_frame_buffer, or a later frame does, even when the encoder writes
\* nothing after it.
C16_WrittenFrameReachesCell ==
  \A n \in 1..MaxFrames :
    (out_frame # None /\ JpegSeq(out_frame) = n) ~> (BufferSeq >= n)

\* The part of C16 that the code keeps: a write that finds the capture
\* thread waiting on the condition is handed over.
L16_NotifiedFrameReachesCell ==
  \A n \in 1..MaxFrames :
    (cfc_pc = "notified" /\ JpegSeq(out_frame) = n) ~> (BufferSeq >= n)

\* C17: once the cell holds a frame it holds one in every later state; a
\* generate_frames session that has passed its unlocked test finds a frame
\* when it copies under the lock, and the copy never raises.
T17_FramePresenceIsMonotone ==
  /\ [][Cell # None => Cell' # None]_vars
  /\ [](\A s \in Sessions :
          (variant = "main" /\ s_pc[s] \in {"acquire", "copy"}) => frame # None)
  /\ [][\A s \in Sessions :
          s_pc[s] = "copy" => s_pc'[s] \in {"copy", "release"}]_vars

\* One session has passed its unlocked test and waits for the lock while
\* capture_video, inside its block, has just replaced the first frame by the
\* second; the other session has copied the first frame and left the block.
W17_ReaderWaitsDuringRepublish ==
  \E s, k \in Sessions :
    /\ s # k
    /\ s_pc[s] = "acquire"
    /\ lock = "cv" /\ cv_pc = "write_dets" /\ ImgSeq(frame) = 2
    /\ s_pc[k] = "encode" /\ SnapshotSeq(k) = 1

\* The threads of the two scripts and the three locks.
Threads == {"cv", "gd", "enc", "cfc"} \cup Sessions
Locks == {"lock", "frame_lock", "condition"}

\* Who holds a lock.
HolderOf(l) ==
  IF l = "lock" THEN lock ELSE IF l = "frame_lock" THEN frame_lock
  ELSE cond_lock

\* The lock a thread is at the point of acquiring, if any: the entry of a
\* `with` block, or the return from condition.wait() after a notify.
Wants(th, l) ==
  \/ l = "lock" /\ th = "cv" /\ cv_pc = "acquire"
  \/ l = "lock" /\ th = "gd" /\ gd_pc = "acquire"
  \/ l = "lock" /\ th \in Sessions /\ variant = "main" /\ s_pc[th] = "acquire"
  \/ l = "frame_lock" /\ th \in Sessions /\ variant = "pi" /\ s_pc[th] = "lock"
  \/ l = "frame_lock" /\ th = "cfc" /\ cfc_pc = "lock_frame"
  \/ l = "condition" /\ th = "cfc" /\ cfc_pc \in {"cond_acquire", "notified"}
  \/ l = "condition" /\ th = "enc" /\ enc_pc = "produce" /\ nread < avail

\* A thread is inside the block that a lock protects.
Inside(th, l) ==
  \/ l = "lock" /\ th = "cv"
       /\ cv_pc \in {"write_frame", "write_dets", "release"}
  \/ l = "lock" /\ th = "gd" /\ gd_pc \in {"dumps", "release"}
  \/ l = "lock" /\ th \in Sessions /\ variant = "main"
       /\ s_pc[th] \in {"copy", "release"}
  \/ l = "frame_lock" /\ th \in Sessions /\ variant = "pi"
       /\ s_pc[th] \in {"read", "unlock"}
  \/ l = "frame_lock" /\ th = "cfc" /\ cfc_pc \in {"store", "unlock_frame"}
  \/ l = "condition" /\ th = "cfc" /\ cfc_pc \in {"wait", "take"}
  \/ l = "condition" /\ th = "enc" /\ enc_pc \in {"w_body", "w_release"}

\* A thread is blocked on a lock acquisition.
Blocked(th) == \E l \in Locks : Wants(th, l) /\ HolderOf(l) # Free

\* A thread has a step it can take now.
CanStep(th) ==
  IF th = "cv" THEN ENABLED CaptureVideo
  ELSE IF th = "gd" THEN ENABLED (GD_Acquire \/ GD_Dumps \/ GD_Return)
  ELSE IF th = "enc" THEN ENABLED Encoder
  ELSE IF th = "cfc" THEN ENABLED CaptureFramesContinuously
  ELSE ENABLED (GenerateFrames(th) \/ GenerateCameraStream(th))

\* C18: a thread that is acquiring a lock holds no lock; a lock is held by
\* a thread exactly while that thread is inside the block the lock protects,
\* so a thread that has left a block (normally or by an exception) or has
\* ended holds nothing; and whenever some thread is blocked on a lock, the
\* holder of that lock is a thread that can take a step.
T18_NoDeadlock ==
  /\ \A th \in Threads : \A l, m \in Locks :
        Wants(th, l) => HolderOf(m) # th
  /\ \A th \in Threads : \A l \in Locks :
        HolderOf(l) = th <=> Inside(th, l)
  /\ \A l \in Locks : HolderOf(l) \in Threads \cup {Free}
  /\ \A th \in Threads : \A l \in Locks :
        (Wants(th, l) /\ HolderOf(l) # Free) =>
           ~Blocked(HolderOf(l)) /\ CanStep(HolderOf(l))

\* pi_camera.py: the capture thread, holding the frame it took, waits for
\* frame_lock, which one session holds while the other waits for it too, and
\* the encoder is inside write() with the next frame.
W18_ThreadsBlockedOnHeldLock ==
  /\ cfc_pc = "lock_frame" /\ Blocked("cfc")
  /\ cond_lock = "enc"
  /\ \E s, k \in Sessions : s # k /\ frame_lock = s /\ Blocked(k)

====
